---------------------------- MODULE Spec2Model ----------------------------
(***************************************************************************)
(* Model of images/optimize_images.py: a directory-walking batch converter *)
(* that re-encodes images to WebP, optionally backing up and deleting the  *)
(* originals.                                                              *)
(*                                                                         *)
(* The filesystem is a function from paths to file contents; main() and    *)
(* optimize_image() are modelled statement group by statement group, with  *)
(* the generator of iter_image_files as an explicit lazy walker.  The      *)
(* Pillow calls (open, resize, save) and the OS calls (write, unlink) are  *)
(* the environment: each may succeed or raise.                             *)
(***************************************************************************)
EXTENDS Integers, Sequences, FiniteSets, TLC

\* Optional values: None, or Some(x) whose value is Val.
None == << >>
Some(x) == <<x>>
Val(o) == o[1]

(***************************************************************************)
(* Python float arithmetic (IEEE-754 binary64, round to nearest, ties to   *)
(* even) as used by                                                        *)
(*     scale = min(MAX_WIDTH / width, MAX_HEIGHT / height, 1.0)            *)
(*     new_size = (int(width * scale), int(height * scale))                *)
(* A positive float is [bits, exp]: bits are the MantissaBits significant  *)
(* binary digits, most significant first (bits[1] = 1), and the value is   *)
(* the sum of bits[i] * 2^(exp - i).                                       *)
(***************************************************************************)
MantissaBits == 53

RECURSIVE Pow2(_)
Pow2(n) == IF n = 0 THEN 1 ELSE 2 * Pow2(n - 1)

\* Number of binary digits of a natural number (0 has none).
RECURSIVE BitLen(_)
BitLen(n) == IF n = 0 THEN 0 ELSE 1 + BitLen(n \div 2)

\* Binary digits of a natural number, most significant first.
RECURSIVE IntToBits(_)
IntToBits(n) == IF n = 0 THEN << >> ELSE Append(IntToBits(n \div 2), n % 2)

RECURSIVE BitsToInt(_)
BitsToInt(b) ==
    IF b = << >> THEN 0
    ELSE 2 * BitsToInt(SubSeq(b, 1, Len(b) - 1)) + b[Len(b)]

\* Adds one unit in the last place; <<digits, carry out>>.
IncBits(b) ==
    LET n == Len(b) IN
    IF \A i \in 1..n : b[i] = 1 THEN << [i \in 1..n |-> 0], 1 >>
    ELSE LET j == CHOOSE i \in 1..n :
                      b[i] = 0 /\ \A k \in (i + 1)..n : b[k] = 1
         IN  << [i \in 1..n |-> IF i < j THEN b[i] ELSE IF i = j THEN 1 ELSE 0],
                0 >>

\* TRUE iff some digit of b is 1.
AnyBit(b) == \E i \in 1..Len(b) : b[i] = 1

\* Rounds the digit string `kept \o rest` (value below 2^exp) to Len(kept)
\* digits, nearest with ties to even.
RoundBits(kept, rest, exp) ==
    LET up == /\ rest # << >>
              /\ rest[1] = 1
              /\ \/ AnyBit(SubSeq(rest, 2, Len(rest)))
                 \/ kept[Len(kept)] = 1
    IN  IF ~up THEN [bits |-> kept, exp |-> exp]
        ELSE LET r == IncBits(kept) IN
             IF r[2] = 0 THEN [bits |-> r[1], exp |-> exp]
             ELSE [bits |-> <<1>> \o SubSeq(r[1], 1, Len(kept) - 1),
                   exp |-> exp + 1]

\* 2^n modulo m, by squaring.
RECURSIVE PowMod2(_, _)
PowMod2(n, m) ==
    IF n = 0 THEN 1 % m
    ELSE LET h == PowMod2(n \div 2, m) IN
         (h * h * (IF n % 2 = 1 THEN 2 ELSE 1)) % m

\* The binary digit of weight 2^(exp - i) of the quotient a / b.
DivBit(a, b, exp, i) ==
    IF i <= exp THEN (a \div (b * Pow2(exp - i))) % 2
    ELSE IF 2 * (((a % b) * PowMod2(i - exp - 1, b)) % b) >= b THEN 1 ELSE 0

\* a / b for positive integers a and b: int / int true division, correctly rounded.
FloatDiv(a, b) ==
    LET e   == BitLen(a) - BitLen(b)
        \* a / b lies in [2^(e-1), 2^(e+1)); exp is the least E with a < b * 2^E
        lo  == IF e >= 0 THEN a < b * Pow2(e) ELSE a * Pow2(-e) < b
        exp == IF lo THEN e ELSE e + 1
        q   == [i \in 1..MantissaBits |-> DivBit(a, b, exp, i)]
        \* the digit after the last kept one, and a sticky digit for the rest
        sticky == ((a % b) * PowMod2(MantissaBits + 1 - exp, b)) % b # 0
        rest == << DivBit(a, b, exp, MantissaBits + 1), IF sticky THEN 1 ELSE 0 >>
    IN  RoundBits(q, rest, exp)

One == [bits |-> <<1>> \o [i \in 1..(MantissaBits - 1) |-> 0], exp |-> 1]

\* Lexicographic order of digit strings of equal length.
BitsLess(x, y) ==
    \E i \in 1..Len(x) : x[i] < y[i] /\ \A j \in 1..(i - 1) : x[j] = y[j]

FloatLess(x, y) ==
    \/ x.exp < y.exp
    \/ x.exp = y.exp /\ BitsLess(x.bits, y.bits)

\* Python's min: the first of the smallest.
FloatMin2(x, y) == IF FloatLess(y, x) THEN y ELSE x
FloatMin3(x, y, z) == FloatMin2(FloatMin2(x, y), z)

\* The mantissa is multiplied in limbs of LimbBits digits, as the product of
\* a limb and an image side stays small.
LimbBits == 14
LimbBase == Pow2(LimbBits)
Limbs == 4

\* The w binary digits of n < 2^w, most significant first.
FixedBits(n, w) == [i \in 1..w |-> (n \div Pow2(w - i)) % 2]

\* Limb k (1 is the most significant) of a digit string padded on the left.
Limb(b, k) ==
    LET pad == Limbs * LimbBits - Len(b)
        lo  == (k - 1) * LimbBits + 1 - pad
        hi  == k * LimbBits - pad
    IN  BitsToInt(SubSeq(b, IF lo < 1 THEN 1 ELSE lo, hi))

\* Carry out of limbs k..Limbs of b * n.
RECURSIVE MulCarry(_, _, _)
MulCarry(b, n, k) ==
    IF k > Limbs THEN 0
    ELSE (Limb(b, k) * n + MulCarry(b, n, k + 1)) \div LimbBase

\* Digits of b * n without leading zeros; n >= 1, Len(b) <= Limbs * LimbBits.
MulBits(b, n) ==
    LET digit(k) == (Limb(b, k) * n + MulCarry(b, n, k + 1)) % LimbBase
        all == IntToBits(MulCarry(b, n, 1))
                 \o FixedBits(digit(1), LimbBits) \o FixedBits(digit(2), LimbBits)
                 \o FixedBits(digit(3), LimbBits) \o FixedBits(digit(4), LimbBits)
        first == CHOOSE i \in 1..Len(all) :
                     all[i] = 1 /\ \A j \in 1..(i - 1) : all[j] = 0
    IN  SubSeq(all, first, Len(all))

\* n * x for a positive integer n (exactly representable) and a float x.
FloatMulInt(n, x) ==
    LET p == MulBits(x.bits, n)
        k == Len(p) - MantissaBits
    IN  RoundBits(SubSeq(p, 1, MantissaBits), SubSeq(p, MantissaBits + 1, Len(p)),
                  x.exp + k)

\* int(x): truncation toward zero.
FloatToInt(x) ==
    IF x.exp <= 0 THEN 0
    ELSE IF x.exp <= MantissaBits THEN BitsToInt(SubSeq(x.bits, 1, x.exp))
         ELSE BitsToInt(x.bits) * Pow2(x.exp - MantissaBits)

(***************************************************************************)
(* Configuration constants of the script (lines 27-50).                    *)
(***************************************************************************)
SourceMaxWidth == 1920
SourceMaxHeight == 1920
Recursive == TRUE
BACKUP_FOLDER_NAME == "_backup_originals"
SUPPORTED_EXTENSIONS == {".jpg", ".jpeg", ".png", ".bmp", ".tif", ".tiff", ".gif"}

(***************************************************************************)
(* Bounds of the model.                                                    *)
(***************************************************************************)
MaxRuns == 2        \* invocations of the script on the same tree
MaxInputLen == 2    \* characters typed at the confirmation prompt
MaxDim == 7         \* image sides 1..MaxDim in the resize specification

VARIABLES
    DELETE_ORIGINALS, MAKE_BACKUP,  \* the two flags, fixed for a behaviour
    MAX_WIDTH, MAX_HEIGHT,          \* an integer or None, fixed for a behaviour
    fs,             \* the files under root: path -> content
    dirs,           \* the directories under root
    pc,             \* position of main(): start, backup_root, loop, optimize, done
    confirm,        \* main's local: the text typed at the prompt
    backup_root,    \* main's local: None or the backup directory
    count,          \* main's local: files processed
    it_todo,        \* iter_image_files: directories found, not listed yet
    it_scan,        \* iter_image_files: directory whose subdirectories are to be read
    it_entries,     \* iter_image_files: entries of the current listing not produced yet
    file_path,      \* the loop variable of main / parameter of optimize_image
    opc,            \* position inside optimize_image
    output_path,    \* optimize_image's local
    img,            \* optimize_image's local: the opened image
    img_to_save,    \* optimize_image's local: the image handed to save()
    console,        \* messages printed in the current iteration of main's loop
    runs,           \* history: invocations started
    initial,        \* history: fs and dirs when the current run started
    handed,         \* history: path -> number of optimize_image calls in this run
    steps,          \* history: sub-steps executed in the current iteration
    written         \* history: paths written by the current run

cfg == <<DELETE_ORIGINALS, MAKE_BACKUP, MAX_WIDTH, MAX_HEIGHT>>
walker == <<it_todo, it_scan, it_entries>>
locals == <<output_path, img, img_to_save>>
vars == <<cfg, fs, dirs, pc, confirm, backup_root, count, walker, file_path,
          opc, locals, console, runs, initial, handed, steps, written>>

(***************************************************************************)
(* Paths are relative to root: directory parts, stem and suffix.           *)
(***************************************************************************)
Path(d, s, e) == [dir |-> d, stem |-> s, ext |-> e]

\* Parts of root itself (Path(__file__).resolve().parent).
RootParts == <<"/", "srv", "site", "images">>

Range(s) == {s[i] : i \in DOMAIN s}

\* path.parts: root's parts, the directories, the file name.
InParts(name, p) ==
    \/ name \in Range(RootParts)
    \/ name \in Range(p.dir)
    \/ p.ext = "" /\ p.stem = name

\* str.lower() on the suffixes that occur.
Lower(e) ==
    CASE e = ".JPG" -> ".jpg"
      [] e = ".PNG" -> ".png"
      [] e = ".WEBP" -> ".webp"
      [] OTHER -> e

\* file_path.with_suffix(".webp")
with_suffix_webp(p) == [p EXCEPT !.ext = ".webp"]

\* backup_root / file_path.relative_to(root)
BackupDest(broot, p) == [p EXCEPT !.dir = broot \o p.dir]

Prefixes(d) == {SubSeq(d, 1, n) : n \in 0..Len(d)}
Children(ds, d) ==
    {e \in ds : Len(e) = Len(d) + 1 /\ SubSeq(e, 1, Len(d)) = d}

WriteFile(f, p, c) == [q \in DOMAIN f \cup {p} |-> IF q = p THEN c ELSE f[q]]
RemoveFile(f, p) == [q \in DOMAIN f \ {p} |-> f[q]]

(***************************************************************************)
(* File contents.  Two files hold the same bytes iff their contents are    *)
(* equal.  For an image, the fields are what Image.open reads from it.     *)
(***************************************************************************)
Content(t, m, w, h, a, r) ==
    [tag |-> t, mode |-> m, w |-> w, h |-> h, anim |-> a, rot |-> r]

Empty == Content("empty", "", 0, 0, FALSE, FALSE)       \* zero bytes
Junk == Content("junk", "", 0, 0, FALSE, FALSE)         \* not an image
Photo == Content("jpeg", "RGB", 4000, 3000, FALSE, TRUE)  \* EXIF orientation 6
Sliver == Content("png", "L", 1, 4000, FALSE, FALSE)
Small == Content("jpeg", "CMYK", 640, 480, FALSE, FALSE)
Anim == Content("gif", "P", 2500, 600, TRUE, FALSE)
Stale == Content("jpeg", "RGB", 800, 600, FALSE, FALSE)
OldWebp == Content("webp", "RGB", 10, 10, FALSE, FALSE)

st_size_positive(c) == c.tag # "empty"
Identifiable(c) == c.tag \notin {"empty", "junk", "partial"}

(***************************************************************************)
(* The image pipeline of optimize_image (lines 131-171).  An opened image  *)
(* is [mode, size, is_animated, rot]; rot says that its EXIF orientation   *)
(* tag asks for a quarter turn.                                            *)
(***************************************************************************)
Image_open(c) ==
    [mode |-> c.mode, size |-> <<c.w, c.h>>, is_animated |-> c.anim, rot |-> c.rot]

\* ImageOps.exif_transpose: applies the orientation and drops the tag.
exif_transpose(im) ==
    IF im.rot THEN [im EXCEPT !.size = <<im.size[2], im.size[1]>>, !.rot = FALSE]
    ELSE im

\* scale = min(MAX_WIDTH / width, MAX_HEIGHT / height, 1.0)
\* (ScaleWidthOnly is the faulty variant that forgets the height limit.)
ScaleWidthOnly(width, height, maxw, maxh) ==
    FloatMin2(FloatDiv(Val(maxw), width), One)
Scale(width, height, maxw, maxh) ==
    FloatMin3(FloatDiv(Val(maxw), width), FloatDiv(Val(maxh), height), One)

\* Lines 139-144: the size the image has after the resize step; the target
\* of img.resize when scale < 1.0, the image's own size otherwise.
NewSize(width, height, maxw, maxh) ==
    IF maxw # None /\ maxh # None
    THEN LET scale == Scale(width, height, maxw, maxh) IN
         IF FloatLess(scale, One)
         THEN << FloatToInt(FloatMulInt(width, scale)),
                 FloatToInt(FloatMulInt(height, scale)) >>
         ELSE <<width, height>>
    ELSE <<width, height>>

\* TRUE iff line 144 calls img.resize.
Resizes(width, height, maxw, maxh) ==
    /\ maxw # None /\ maxh # None
    /\ FloatLess(Scale(width, height, maxw, maxh), One)

\* Image.resize raises ValueError ("height and width must be > 0") for an
\* empty target size.
ResizeRaises(size) == size[1] < 1 \/ size[2] < 1

\* Lines 157-159.
NormalMode(m) == IF m \in {"RGB", "RGBA", "P"} THEN m ELSE "RGB"

\* Lines 133-171: img_to_save and the save_all flag of save_kwargs.
TransformImage(im, maxw, maxh) ==
    IF ~im.is_animated
    THEN LET t == exif_transpose(im) IN
         [mode |-> NormalMode(t.mode),
          size |-> NewSize(t.size[1], t.size[2], maxw, maxh),
          is_animated |-> FALSE, rot |-> FALSE, save_all |-> FALSE]
    ELSE [mode |-> NormalMode(im.mode), size |-> im.size,
          is_animated |-> TRUE, rot |-> im.rot, save_all |-> TRUE]

\* The bytes img_to_save.save(output_path, format="WEBP", ...) writes.
Encoded(s) == Content("webp", s.mode, s.size[1], s.size[2], s.save_all, s.rot)

(***************************************************************************)
(* Console messages (print_status, lines 56-70) and their status.          *)
(***************************************************************************)
Status(msg) ==
    CASE msg \in {"Saltando"} -> "WARNING"
      [] msg \in {"ErrorAlGenerar", "NoSePudoIdentificar", "ErrorInesperado",
                  "NoSePudoBorrar"} -> "ERROR"
      [] msg \in {"Optimizado"} -> "SUCCESS"
      [] OTHER -> "INFO"

print_status(out, msg) == Append(out, msg)

(***************************************************************************)
(* The confirmation prompt (lines 230-234): confirm.strip().upper().       *)
(***************************************************************************)
Alphabet == {"S", "i", " ", "n"}
InputTexts == UNION {[1..n -> Alphabet] : n \in 0..MaxInputLen}

RECURSIVE LStrip(_)
LStrip(s) == IF s # << >> /\ s[1] = " " THEN LStrip(Tail(s)) ELSE s

RECURSIVE RStrip(_)
RStrip(s) ==
    IF s # << >> /\ s[Len(s)] = " " THEN RStrip(SubSeq(s, 1, Len(s) - 1)) ELSE s

Strip(s) == RStrip(LStrip(s))

UpperChar(c) ==
    CASE c = "i" -> "I"
      [] c = "n" -> "N"
      [] c = "s" -> "S"
      [] OTHER -> c

Upper(s) == [k \in 1..Len(s) |-> UpperChar(s[k])]

Affirmative == <<"S", "I">>

\* Line 232, negated: the run goes on.
\* (AcceptsAnything is the faulty variant that takes any non-blank text.)
AcceptsAnything(text) == Strip(text) # << >>
Accepts(text) == Upper(Strip(text)) = Affirmative

(***************************************************************************)
(* Initial state: the script is about to run on some tree.  The tree is    *)
(* any choice of these files, which includes an output and a backup left   *)
(* behind by an earlier run.                                               *)
(***************************************************************************)
Opt(p, contents) == { << >> } \cup {p :> c : c \in contents}

BackupRootDir == <<BACKUP_FOLDER_NAME>>

InitialTrees ==
    { a @@ b @@ c @@ d @@ e :
        a \in Opt(Path(<< >>, "a", ".jpg"), {Photo, Junk}),
        b \in Opt(Path(<< >>, "a", ".png"), {Sliver}),
        c \in Opt(Path(<<"sub">>, "b", ".JPG"), {Anim}),
        d \in Opt(Path(<< >>, "a", ".webp"), {OldWebp}),
        e \in Opt(Path(BackupRootDir, "a", ".jpg"), {Stale}) }

DirsOf(f) == UNION {Prefixes(p.dir) : p \in DOMAIN f} \cup { << >> }

RunStart ==
    /\ pc = "start"
    /\ confirm = None
    /\ backup_root = None
    /\ count = 0
    /\ it_todo = {} /\ it_scan = None /\ it_entries = {}
    /\ file_path = None
    /\ opc = "idle"
    /\ output_path = None /\ img = None /\ img_to_save = None
    /\ console = << >>
    /\ handed = << >>
    /\ steps = << >>
    /\ written = {}

Init ==
    /\ DELETE_ORIGINALS \in BOOLEAN
    /\ MAKE_BACKUP \in BOOLEAN
    /\ MAX_WIDTH = Some(SourceMaxWidth)
    /\ MAX_HEIGHT = Some(SourceMaxHeight)
    /\ fs \in InitialTrees
    /\ dirs = DirsOf(fs)
    /\ runs = 1
    /\ initial = [fs |-> fs, dirs |-> dirs]
    /\ RunStart

(***************************************************************************)
(* main(), lines 206-251.                                                  *)
(***************************************************************************)
\* Lines 230-234: the confirmation gate.
main_confirm ==
    /\ pc = "start"
    /\ IF DELETE_ORIGINALS
       THEN \E text \in InputTexts :
               /\ confirm' = Some(text)
               /\ pc' = IF Accepts(text) THEN "backup_root" ELSE "done"
       ELSE confirm' = confirm /\ pc' = "backup_root"
    /\ UNCHANGED <<cfg, fs, dirs, backup_root, count, walker, file_path, opc,
                   locals, console, runs, initial, handed, steps, written>>

\* Lines 90-93: backup_root.mkdir(exist_ok=True).
ensure_backup_folder(ds) == ds \cup {BackupRootDir}

\* Lines 236-239: the backup folder, the counter, and the generator object
\* (whose body has not started).
main_ensure_backup ==
    /\ pc = "backup_root"
    /\ backup_root' = IF MAKE_BACKUP THEN Some(BackupRootDir) ELSE None
    /\ dirs' = IF MAKE_BACKUP THEN ensure_backup_folder(dirs) ELSE dirs
    /\ count' = 0
    /\ it_todo' = { << >> }
    /\ it_scan' = None
    /\ it_entries' = {}
    /\ pc' = "loop"
    /\ UNCHANGED <<cfg, fs, confirm, file_path, opc, locals, console, runs,
                   initial, handed, steps, written>>

(***************************************************************************)
(* iter_image_files, lines 73-87.  root.rglob("*") lists a directory when  *)
(* it reaches it and then produces the listed entries one by one; it reads *)
(* the directory's subdirectories after that.  The order of entries and of *)
(* directories is the filesystem's.                                        *)
(***************************************************************************)
\* Lines 81-86: the filter.
\* (IsCandidateNoBackupCheck is the faulty variant without lines 84-85.)
IsCandidateNoBackupCheck(f, p) ==
    /\ p \in DOMAIN f
    /\ Lower(p.ext) \in SUPPORTED_EXTENSIONS
IsCandidate(f, p) ==
    /\ p \in DOMAIN f
    /\ ~InParts(BACKUP_FOLDER_NAME, p)
    /\ Lower(p.ext) \in SUPPORTED_EXTENSIONS

BagAdd(b, p) == IF p \in DOMAIN b THEN [b EXCEPT ![p] = @ + 1] ELSE WriteFile(b, p, 1)

iter_list_dir ==
    /\ pc = "loop"
    /\ it_entries = {} /\ it_scan = None /\ it_todo # {}
    /\ \E d \in it_todo :
          /\ it_todo' = it_todo \ {d}
          /\ it_entries' = {p \in DOMAIN fs : p.dir = d}
          /\ it_scan' = Some(d)
    /\ console' = << >> /\ steps' = << >>
    /\ UNCHANGED <<cfg, fs, dirs, pc, confirm, backup_root, count, file_path,
                   opc, locals, runs, initial, handed, written>>

iter_scan_subdirs ==
    /\ pc = "loop"
    /\ it_entries = {} /\ it_scan # None
    /\ it_todo' = it_todo \cup (IF Recursive THEN Children(dirs, Val(it_scan)) ELSE {})
    /\ it_scan' = None
    /\ console' = << >> /\ steps' = << >>
    /\ UNCHANGED <<cfg, fs, dirs, pc, confirm, backup_root, count, it_entries,
                   file_path, opc, locals, runs, initial, handed, written>>

\* One entry of the listing goes through the filter; a candidate is yielded
\* to the loop of main (line 239), which calls optimize_image on it (line 240).
iter_next_entry ==
    /\ pc = "loop"
    /\ \E p \in it_entries :
          /\ it_entries' = it_entries \ {p}
          /\ IF IsCandidate(fs, p)
             THEN /\ file_path' = Some(p)
                  /\ pc' = "optimize"
                  /\ opc' = "skip_check"
                  /\ handed' = BagAdd(handed, p)
             ELSE UNCHANGED <<file_path, pc, opc, handed>>
    /\ console' = << >> /\ steps' = << >>
    /\ UNCHANGED <<cfg, fs, dirs, confirm, backup_root, count, it_todo, it_scan,
                   locals, runs, initial, written>>

\* Lines 243-251: the generator is exhausted; the count is reported.
main_finish ==
    /\ pc = "loop"
    /\ it_entries = {} /\ it_scan = None /\ it_todo = {}
    /\ pc' = "done"
    /\ console' = << >> /\ steps' = << >>
    /\ UNCHANGED <<cfg, fs, dirs, confirm, backup_root, count, walker, file_path,
                   opc, locals, runs, initial, handed, written>>

\* The script is started again on the tree the last run left.
new_run ==
    /\ pc = "done"
    /\ runs < MaxRuns
    /\ runs' = runs + 1
    /\ initial' = [fs |-> fs, dirs |-> dirs]
    /\ pc' = "start"
    /\ confirm' = None
    /\ backup_root' = None
    /\ count' = 0
    /\ it_todo' = {} /\ it_scan' = None /\ it_entries' = {}
    /\ file_path' = None
    /\ opc' = "idle"
    /\ output_path' = None /\ img' = None /\ img_to_save' = None
    /\ console' = << >>
    /\ handed' = << >>
    /\ steps' = << >>
    /\ written' = {}
    /\ UNCHANGED <<cfg, fs, dirs>>

(***************************************************************************)
(* optimize_image, lines 112-203, one action per statement group.          *)
(***************************************************************************)
\* The order of the statement groups in the body.
\* (StepOrderBackupFirst is the variant with the backup ahead of the transform.)
StepOrderBackupFirst ==
    <<"skip_check", "decode", "backup", "transform", "encode", "verify", "delete">>
StepOrder ==
    <<"skip_check", "decode", "transform", "backup", "encode", "verify", "delete">>

After(step) ==
    LET k == CHOOSE i \in 1..Len(StepOrder) : StepOrder[i] = step
    IN  StepOrder[k + 1]

\* The call returns; main counts the file (line 241) and asks for the next.
Return ==
    /\ pc' = "loop"
    /\ opc' = "idle"
    /\ count' = count + 1
    /\ output_path' = None /\ img' = None /\ img_to_save' = None

\* The statement group is done and the next one is reached.
Continue(step) ==
    /\ opc' = After(step)
    /\ UNCHANGED <<pc, count>>

\* Lines 200-203: both handlers report the error; the call then returns.
\* (HandlePropagates is the faulty variant in which the exception ends main.)
HandlePropagates(out, msg) ==
    /\ console' = out
    /\ pc' = "done"
    /\ opc' = "idle"
    /\ count' = count
    /\ output_path' = None /\ img' = None /\ img_to_save' = None
Handle(out, msg) ==
    /\ console' = print_status(out, msg)
    /\ Return

\* Lines 120-125.
\* (opt_skip_check_never is the faulty variant without the early return.)
opt_skip_check_never ==
    /\ pc = "optimize" /\ opc = "skip_check"
    /\ steps' = Append(steps, "skip_check")
    /\ output_path' = Some(with_suffix_webp(Val(file_path)))
    /\ Continue("skip_check")
    /\ UNCHANGED <<cfg, fs, dirs, confirm, backup_root, walker, file_path, img,
                   img_to_save, console, runs, initial, handed, written>>
opt_skip_check ==
    /\ pc = "optimize" /\ opc = "skip_check"
    /\ steps' = Append(steps, "skip_check")
    /\ LET out == with_suffix_webp(Val(file_path)) IN
       IF out \in DOMAIN fs
       THEN /\ console' = print_status(console, "Saltando")
            /\ Return
       ELSE /\ output_path' = Some(out)
            /\ Continue("skip_check")
            /\ UNCHANGED <<img, img_to_save, console>>
    /\ UNCHANGED <<cfg, fs, dirs, confirm, backup_root, walker, file_path, runs,
                   initial, handed, written>>

\* Lines 128-131: Image.open.
opt_decode ==
    /\ pc = "optimize" /\ opc = "decode"
    /\ steps' = Append(steps, "decode")
    /\ LET c == fs[Val(file_path)] IN
       \/ /\ Identifiable(c)
          /\ img' = Some(Image_open(c))
          /\ console' = print_status(console, "Procesando")
          /\ Continue("decode")
          /\ UNCHANGED <<output_path, img_to_save>>
       \/ /\ ~Identifiable(c)       \* UnidentifiedImageError
          /\ Handle(console, "NoSePudoIdentificar")
       \/ Handle(console, "ErrorInesperado")    \* OSError
    /\ UNCHANGED <<cfg, fs, dirs, confirm, backup_root, walker, file_path, runs,
                   initial, handed, written>>

\* Lines 133-171.
opt_transform ==
    /\ pc = "optimize" /\ opc = "transform"
    /\ steps' = Append(steps, "transform")
    /\ LET im == Val(img)
           t  == exif_transpose(im)
           resized == ~im.is_animated
                      /\ Resizes(t.size[1], t.size[2], MAX_WIDTH, MAX_HEIGHT)
           s  == TransformImage(im, MAX_WIDTH, MAX_HEIGHT)
       IN
       \/ /\ ~(resized /\ ResizeRaises(s.size))
          /\ img_to_save' = Some(s)
          /\ console' = IF im.is_animated THEN print_status(console, "Animacion")
                        ELSE IF resized THEN print_status(console, "Redimensionado")
                        ELSE console
          /\ Continue("transform")
          /\ UNCHANGED <<output_path, img>>
       \/ /\ resized /\ ResizeRaises(s.size)    \* ValueError from img.resize
          /\ Handle(console, "ErrorInesperado")
       \/ Handle(console, "ErrorInesperado")    \* MemoryError and the like
    /\ UNCHANGED <<cfg, fs, dirs, confirm, backup_root, walker, file_path, runs,
                   initial, handed, written>>

\* A write that failed part-way leaves the first bytes behind.
Truncated(c) == [c EXCEPT !.tag = "partial"]

\* Lines 96-109, called at line 175.  out is the console so far.
\* (backup_original_overwrite is the faulty variant without the test of line
\* 105; backup_original_flat is the one that drops the relative folder.)
backup_original_overwrite(broot, p, out) ==
    LET dest == BackupDest(broot, p) IN
    /\ fs' = WriteFile(fs, dest, fs[p])
    /\ dirs' = dirs \cup Prefixes(dest.dir)
    /\ written' = written \cup {dest}
    /\ console' = print_status(out, "Backup")
    /\ Continue("backup")
    /\ UNCHANGED locals
backup_original_flat(broot, p, out) ==
    LET dest == [p EXCEPT !.dir = broot] IN
    /\ fs' = WriteFile(fs, dest, fs[p])
    /\ dirs' = dirs \cup Prefixes(dest.dir)
    /\ written' = written \cup {dest}
    /\ console' = print_status(out, "Backup")
    /\ Continue("backup")
    /\ UNCHANGED locals
backup_original(broot, p, out) ==
    IF ~MAKE_BACKUP
    THEN /\ Continue("backup")
         /\ UNCHANGED <<fs, dirs, written, console, locals>>
    ELSE LET dest == BackupDest(broot, p) IN
         \/ /\ dest \notin DOMAIN fs
            /\ fs' = WriteFile(fs, dest, fs[p])
            /\ dirs' = dirs \cup Prefixes(dest.dir)
            /\ written' = written \cup {dest}
            /\ console' = print_status(out, "Backup")
            /\ Continue("backup")
            /\ UNCHANGED locals
         \/ /\ dest \in DOMAIN fs
            /\ dirs' = dirs \cup Prefixes(dest.dir)
            /\ console' = print_status(out, "BackupYaExistia")
            /\ Continue("backup")
            /\ UNCHANGED <<fs, written, locals>>
         \/ /\ dest \notin DOMAIN fs     \* write_bytes fails part-way (OSError)
            /\ fs' = WriteFile(fs, dest, Truncated(fs[p]))
            /\ dirs' = dirs \cup Prefixes(dest.dir)
            /\ written' = written \cup {dest}
            /\ Handle(out, "ErrorInesperado")
         \/ /\ Handle(out, "ErrorInesperado")    \* mkdir or read_bytes fails
            /\ UNCHANGED <<fs, dirs, written>>

\* Lines 173-175.
opt_backup ==
    /\ pc = "optimize" /\ opc = "backup"
    /\ steps' = Append(steps, "backup")
    /\ IF backup_root # None
       THEN backup_original(Val(backup_root), Val(file_path), console)
       ELSE /\ Continue("backup")
            /\ UNCHANGED <<fs, dirs, written, console, locals>>
    /\ UNCHANGED <<cfg, confirm, backup_root, walker, file_path, runs, initial,
                   handed>>

\* Lines 177-178: img_to_save.save(output_path, ...).
opt_encode ==
    /\ pc = "optimize" /\ opc = "encode"
    /\ steps' = Append(steps, "encode")
    /\ LET out == Val(output_path) IN
       \/ /\ fs' = WriteFile(fs, out, Encoded(Val(img_to_save)))
          /\ written' = written \cup {out}
          /\ Continue("encode")
          /\ UNCHANGED <<locals, console>>
       \/ /\ fs' = WriteFile(fs, out, Empty)   \* returns; the file is empty
          /\ written' = written \cup {out}
          /\ Continue("encode")
          /\ UNCHANGED <<locals, console>>
       \/ /\ Continue("encode")                \* returns; no file is there
          /\ UNCHANGED <<fs, written, locals, console>>
       \/ /\ fs' = WriteFile(fs, out, Empty)   \* raises; an empty file is left
          /\ written' = written \cup {out}
          /\ Handle(console, "ErrorInesperado")
       \/ /\ Handle(console, "ErrorInesperado")    \* raises; no file is left
          /\ UNCHANGED <<fs, written>>
    /\ UNCHANGED <<cfg, dirs, confirm, backup_root, walker, file_path, runs,
                   initial, handed>>

\* Line 181: output_path.exists() and output_path.stat().st_size > 0
\* (VerifiedExistsOnly is the faulty variant without the size test.)
VerifiedExistsOnly(f, out) == out \in DOMAIN f
Verified(f, out) == out \in DOMAIN f /\ st_size_positive(f[out])

\* Lines 180-191, 197-198.
opt_verify ==
    /\ pc = "optimize" /\ opc = "verify"
    /\ steps' = Append(steps, "verify")
    /\ IF Verified(fs, Val(output_path))
       THEN /\ console' = print_status(console, "Optimizado")
            /\ IF DELETE_ORIGINALS /\ file_path # output_path
               THEN Continue("verify") /\ UNCHANGED locals
               ELSE Return
       ELSE /\ console' = print_status(console, "ErrorAlGenerar")
            /\ Return
    /\ UNCHANGED <<cfg, fs, dirs, confirm, backup_root, walker, file_path, runs,
                   initial, handed, written>>

\* Lines 192-196: file_path.unlink().
opt_delete ==
    /\ pc = "optimize" /\ opc = "delete"
    /\ steps' = Append(steps, "delete")
    /\ \/ /\ fs' = RemoveFile(fs, Val(file_path))
          /\ console' = print_status(console, "OriginalEliminado")
       \/ /\ fs' = fs                           \* OSError
          /\ console' = print_status(console, "NoSePudoBorrar")
    /\ Return
    /\ UNCHANGED <<cfg, dirs, confirm, backup_root, walker, file_path, runs,
                   initial, handed, written>>

optimize_image ==
    \/ opt_skip_check
    \/ opt_decode
    \/ opt_transform
    \/ opt_backup
    \/ opt_encode
    \/ opt_verify
    \/ opt_delete

iter_image_files ==
    \/ iter_list_dir
    \/ iter_next_entry
    \/ iter_scan_subdirs

Next ==
    \/ main_confirm
    \/ main_ensure_backup
    \/ iter_image_files
    \/ optimize_image
    \/ main_finish
    \/ new_run

Spec == Init /\ [][Next]_vars

(***************************************************************************)
(* The resize step on its own: optimize_image has opened an image of any   *)
(* of these sizes, under any of these limits, and runs lines 133-171.      *)
(***************************************************************************)
Sides == 1..MaxDim \cup {SourceMaxWidth, SourceMaxWidth + 1, 2148, 4000}
Limits == {None, Some(1), Some(3), Some(4), Some(SourceMaxWidth)}

ResizeInit ==
    /\ DELETE_ORIGINALS = TRUE
    /\ MAKE_BACKUP = TRUE
    /\ MAX_WIDTH \in Limits
    /\ MAX_HEIGHT \in Limits
    /\ \E w \in Sides, h \in Sides, a \in BOOLEAN :
          LET p == Path(<< >>, "a", ".png")
              c == Content("png", "RGB", w, h, a, FALSE)
          IN  /\ fs = p :> c
              /\ file_path = Some(p)
              /\ output_path = Some(with_suffix_webp(p))
              /\ img = Some(Image_open(c))
              /\ handed = p :> 1
    /\ dirs = { << >>, BackupRootDir }
    /\ runs = 1
    /\ initial = [fs |-> fs, dirs |-> { << >> }]
    /\ pc = "optimize"
    /\ confirm = Some(Affirmative)
    /\ backup_root = Some(BackupRootDir)
    /\ count = 0
    /\ it_todo = {} /\ it_scan = Some(<< >>) /\ it_entries = {}
    /\ opc = "transform"
    /\ img_to_save = None
    /\ console = <<"Procesando">>
    /\ steps = <<"skip_check", "decode">>
    /\ written = {}

ResizeSpec == ResizeInit /\ [][opt_transform]_vars

(***************************************************************************)
(* Vocabulary of the properties.                                           *)
(***************************************************************************)
IsPrefix(s, t) == Len(s) <= Len(t) /\ \A i \in 1..Len(s) : s[i] = t[i]
Last(s) == s[Len(s)]

\* The mirrored relative path under the backup folder.
Mirror(p) == [p EXCEPT !.dir = <<"_backup_originals">> \o p.dir]
UnderBackup(p) == "_backup_originals" \in Range(p.dir)

\* An eligible file: supported suffix, outside the backup folder.
Eligible(p) ==
    /\ ~UnderBackup(p)
    /\ p.ext \in {".jpg", ".JPG", ".jpeg", ".png", ".PNG", ".bmp", ".tif",
                  ".tiff", ".gif"}

\* The text typed at the prompt, trimmed and upper-cased, is 'SI'.
SaidYes == confirm # None /\ Upper(Strip(Val(confirm))) = <<"S", "I">>
SaidNo == confirm # None /\ Upper(Strip(Val(confirm))) # <<"S", "I">>

\* optimize_image has just returned for file_path.
JustReturned == pc = "loop" /\ opc = "idle" /\ steps # << >>

(***************************************************************************)
(* C1: with delete-originals enabled, a text other than 'SI' (trimmed,     *)
(* upper-cased) at the prompt ends the run with the tree exactly as it     *)
(* was: nothing written, no backup folder, nothing deleted, no candidate   *)
(* handed to optimize_image.                                               *)
(***************************************************************************)
C1_DeclinedRunTouchesNothing ==
    (DELETE_ORIGINALS /\ SaidNo) =>
        /\ pc = "done"
        /\ fs = initial.fs
        /\ dirs = initial.dirs
        /\ written = {}
        /\ DOMAIN handed = {}
        /\ backup_root = None
        /\ count = 0

\* A declined run on a tree that holds a candidate and no backup folder.
C1_Witness ==
    /\ DELETE_ORIGINALS /\ MAKE_BACKUP /\ SaidNo
    /\ pc = "done"
    /\ Val(confirm) = <<" ", "S">>
    /\ \E p \in DOMAIN fs : Eligible(p)
    /\ <<"_backup_originals">> \notin dirs

(***************************************************************************)
(* C2: with make-backup and delete-originals enabled, every original that  *)
(* is deleted has, at the moment of deletion, a file at its mirrored path  *)
(* under the backup folder with the same bytes.                            *)
(***************************************************************************)
C2_DeletedOriginalHasIdenticalBackup ==
    [][ (MAKE_BACKUP /\ DELETE_ORIGINALS) =>
          \A p \in DOMAIN fs \ DOMAIN fs' :
              /\ Mirror(p) \in DOMAIN fs
              /\ fs[Mirror(p)] = fs[p] ]_vars

(***************************************************************************)
(* C3: the original is deleted only if, after the encode step, the output  *)
(* exists and is not empty; when the output is missing or empty, or when   *)
(* decode, transform, backup or encode raised, an error is reported and    *)
(* the original stays, delete-originals or not.                            *)
(***************************************************************************)
C3_VerificationGatesDeletion ==
    [][ /\ \A p \in DOMAIN fs \ DOMAIN fs' :
              /\ file_path = Some(p)
              /\ opc = "delete"
              /\ with_suffix_webp(p) \in DOMAIN fs
              /\ fs[with_suffix_webp(p)].tag # "empty"
        /\ ( /\ pc = "optimize" /\ pc' # "optimize"
             /\ \/ opc \in {"decode", "transform", "backup", "encode"}
                \/ /\ opc = "verify"
                   /\ \/ Val(output_path) \notin DOMAIN fs
                      \/ fs[Val(output_path)].tag = "empty" )
           => /\ Status(Last(console')) = "ERROR"
              /\ Val(file_path) \in DOMAIN fs'
              /\ fs'[Val(file_path)] = fs[Val(file_path)] ]_vars

\* The output came out empty, the error was reported, the original is there.
C3_Witness ==
    /\ DELETE_ORIGINALS
    /\ JustReturned
    /\ Last(steps) = "verify"
    /\ Last(console) = "ErrorAlGenerar"
    /\ Val(file_path) \in DOMAIN fs
    /\ with_suffix_webp(Val(file_path)) \in DOMAIN fs
    /\ fs[with_suffix_webp(Val(file_path))].tag = "empty"

(***************************************************************************)
(* C4: when the output path of the file already exists at the call, the    *)
(* file is skipped: nothing is written, backed up or deleted, and the only *)
(* effect is the warning.                                                  *)
(***************************************************************************)
C4_ExistingOutputSkips ==
    [][ ( /\ pc = "optimize" /\ opc = "skip_check"
          /\ with_suffix_webp(Val(file_path)) \in DOMAIN fs )
        => /\ fs' = fs
           /\ dirs' = dirs
           /\ written' = written
           /\ console' = <<"Saltando">>
           /\ Status(Last(console')) = "WARNING"
           /\ pc' = "loop" /\ opc' = "idle" ]_vars

\* A skipped original that has no backup, with both flags on.
C4_Witness ==
    /\ DELETE_ORIGINALS /\ MAKE_BACKUP
    /\ JustReturned
    /\ console = <<"Saltando">>
    /\ Val(file_path) \in DOMAIN fs
    /\ Mirror(Val(file_path)) \notin DOMAIN fs
    /\ fs[with_suffix_webp(Val(file_path))] = OldWebp

(***************************************************************************)
(* C5 as the specification states it: with make-backup enabled, when a     *)
(* first run has finished, every yielded file (skipped and corrupt ones    *)
(* included) has a copy at its mirrored path, and no other backup copies   *)
(* were created.                                                           *)
(***************************************************************************)
C5_EveryYieldedFileHasBackup ==
    (MAKE_BACKUP /\ runs = 1 /\ pc = "done" /\ backup_root # None) =>
        /\ \A p \in DOMAIN handed : Mirror(p) \in DOMAIN fs
        /\ \A q \in written :
              UnderBackup(q) => \E p \in DOMAIN handed : q = Mirror(p)

\* backup_original ran to its end for the current file.
BackupStepDone == {"Backup", "BackupYaExistia"} \cap Range(console) # {}

(***************************************************************************)
(* C5, amended: with make-backup enabled, a yielded file has a file at its *)
(* mirrored path once backup_original has completed for it; a file that is *)
(* skipped because its output exists, or that fails in decode or           *)
(* transform, gets no backup copy from its call; and every backup copy the *)
(* run creates is at the mirrored path of a yielded file.                  *)
(***************************************************************************)
C5_BackupOnlyForFilesReachingBackupStep ==
    MAKE_BACKUP =>
        /\ \A q \in written :
              UnderBackup(q) => \E p \in DOMAIN handed : q = Mirror(p)
        /\ (file_path # None /\ steps # << >>) =>
              /\ BackupStepDone => Mirror(Val(file_path)) \in DOMAIN fs
              /\ "backup" \notin Range(steps) =>
                    Mirror(Val(file_path)) \notin written

\* A finished first run in which a corrupt file was yielded and has no
\* backup, while another file in a subfolder got its mirrored copy.
C5_Witness ==
    /\ MAKE_BACKUP /\ runs = 1 /\ pc = "done" /\ backup_root # None
    /\ \E p \in DOMAIN handed :
          /\ p \in DOMAIN fs /\ fs[p] = Junk
          /\ Mirror(p) \notin DOMAIN fs
    /\ \E p \in DOMAIN handed : p.dir # << >> /\ Mirror(p) \in written

(***************************************************************************)
(* C6: a file that exists under the backup folder is never written again,  *)
(* replaced or removed; backup_original, finding the mirrored path         *)
(* occupied, leaves the tree as it is.                                     *)
(***************************************************************************)
C6_BackupWrittenAtMostOnce ==
    [][ /\ \A q \in DOMAIN fs :
              UnderBackup(q) => (q \in DOMAIN fs' /\ fs'[q] = fs[q])
        /\ ( /\ pc = "optimize" /\ opc = "backup" /\ MAKE_BACKUP
             /\ Mirror(Val(file_path)) \in DOMAIN fs )
           => /\ fs' = fs
              /\ written' = written
              /\ "Backup" \notin Range(console') ]_vars

\* The backup step found an older, different backup and kept it.
C6_Witness ==
    /\ pc = "optimize" /\ opc = "encode"
    /\ Last(console) = "BackupYaExistia"
    /\ fs[Mirror(Val(file_path))] = Stale
    /\ fs[Val(file_path)] # Stale
    /\ Mirror(Val(file_path)) \notin written

(***************************************************************************)
(* C7 as the specification states it: the steps of optimize_image run in   *)
(* the order skip check, decode, backup, transform, encode, verify,        *)
(* delete.                                                                 *)
(***************************************************************************)
C7_BackupBeforeTransform ==
    IsPrefix(steps, <<"skip_check", "decode", "backup", "transform",
                      "encode", "verify", "delete">>)

(***************************************************************************)
(* C7, amended: the steps of optimize_image run one after another in the   *)
(* order skip check, decode, transform, backup, encode, verify, delete;    *)
(* the backup is taken only after the transform has succeeded, so a file   *)
(* whose transform fails has not been backed up by its call.               *)
(***************************************************************************)
C7_TransformBeforeBackup ==
    /\ IsPrefix(steps, <<"skip_check", "decode", "transform", "backup",
                         "encode", "verify", "delete">>)
    /\ (pc = "optimize" /\ opc # "idle") =>
          IsPrefix(Append(steps, opc),
                   <<"skip_check", "decode", "transform", "backup",
                     "encode", "verify", "delete">>)
    /\ (JustReturned /\ Last(steps) = "transform") =>
          Mirror(Val(file_path)) \notin written

\* The transform failed on a decodable file: no backup was taken.
C7_Witness ==
    /\ MAKE_BACKUP /\ backup_root # None
    /\ JustReturned
    /\ steps = <<"skip_check", "decode", "transform">>
    /\ Status(Last(console)) = "ERROR"
    /\ Mirror(Val(file_path)) \notin DOMAIN fs

\* The run went through the prompt and has come to its end.
RunCompleted == pc = "done" /\ (DELETE_ORIGINALS => SaidYes)

(***************************************************************************)
(* C8: a failure in one file ends only that file's call; the loop goes on  *)
(* to the remaining files, and the count reported at the end is the number *)
(* of files handed to optimize_image, skipped and failed ones included.    *)
(***************************************************************************)
C8_FailureAbortsOnlyThatFile ==
    /\ (pc \in {"loop", "optimize"}) =>
          count = Cardinality(DOMAIN handed)
                    - (IF pc = "optimize" THEN 1 ELSE 0)
    /\ \A p \in DOMAIN handed : handed[p] = 1
    /\ RunCompleted =>
          /\ it_todo = {} /\ it_scan = None /\ it_entries = {}
          /\ count = Cardinality(DOMAIN handed)
          /\ DOMAIN handed = {p \in DOMAIN initial.fs : Eligible(p)}

\* A finished run of three files, one of them corrupt and still in place.
C8_Witness ==
    /\ RunCompleted
    /\ count = 3
    /\ \E p \in DOMAIN handed : p \in DOMAIN fs /\ fs[p] = Junk
    /\ \E p \in DOMAIN handed : with_suffix_webp(p) \in written

(***************************************************************************)
(* C10: no file written by the run (a .webp output, a backup copy) is ever *)
(* handed to optimize_image; the files handed over are eligible files that *)
(* were in the tree before the run wrote anything.                         *)
(***************************************************************************)
C10_RunNeverProcessesItsOwnFiles ==
    /\ DOMAIN handed \cap written = {}
    /\ \A p \in DOMAIN handed : p \in DOMAIN initial.fs /\ Eligible(p)

\* The lazy walk lists a folder that holds a file this run has written.
C10_Witness ==
    /\ pc = "loop"
    /\ \E q \in it_entries : q \in written /\ UnderBackup(q)
    /\ \E q \in written : q.ext = ".webp"

(***************************************************************************)
(* Vocabulary of the resize property, in exact integer arithmetic.         *)
(***************************************************************************)
\* The file being processed, as the resize step sees it (orientation
\* applied), and the limits, when both are set.
Source == exif_transpose(Image_open(fs[Val(file_path)]))
SrcW == Source.size[1]
SrcH == Source.size[2]
LimitsSet == MAX_WIDTH # None /\ MAX_HEIGHT # None
StillImage == ~Source.is_animated

\* The exact scale min(MAX_WIDTH / w, MAX_HEIGHT / h, 1) as a fraction.
WidthBinds == Val(MAX_WIDTH) * SrcH <= Val(MAX_HEIGHT) * SrcW
ScaleNum == IF WidthBinds THEN Val(MAX_WIDTH) ELSE Val(MAX_HEIGHT)
ScaleDen == IF WidthBinds THEN SrcW ELSE SrcH
MustShrink == LimitsSet /\ (Val(MAX_WIDTH) < SrcW \/ Val(MAX_HEIGHT) < SrcH)

\* floor(side * scale), exactly.
ExactFloor(side) == (side * ScaleNum) \div ScaleDen
ExactIsWhole(side) == (side * ScaleNum) % ScaleDen = 0

\* The transform step has produced the image to save.
Transformed == opc = "backup" /\ img_to_save # None
OutW == Val(img_to_save).size[1]
OutH == Val(img_to_save).size[2]

(***************************************************************************)
(* C9 as the specification states it: a non-animated image larger than a   *)
(* limit is resized to (floor(w*s), floor(h*s)) with s = min(MAX_WIDTH/w,  *)
(* MAX_HEIGHT/h, 1), neither side above its limit or its original, aspect  *)
(* ratio kept; otherwise the image keeps its size.                         *)
(***************************************************************************)
C9_ExactFloorAndAspectRatio ==
    (Transformed /\ StillImage) =>
        IF MustShrink
        THEN /\ OutW = ExactFloor(SrcW)
             /\ OutH = ExactFloor(SrcH)
             /\ OutW <= Val(MAX_WIDTH) /\ OutW <= SrcW
             /\ OutH <= Val(MAX_HEIGHT) /\ OutH <= SrcH
             /\ OutW * SrcH = OutH * SrcW
        ELSE OutW = SrcW /\ OutH = SrcH

(***************************************************************************)
(* C9, amended: the scale never exceeds 1, so an image is never enlarged.  *)
(* A non-animated image larger than a limit (both limits set) gets the     *)
(* size (int(w*s), int(h*s)) computed in double precision: each side is    *)
(* the exactly scaled side rounded down, or one pixel less when the        *)
(* exactly scaled side is a whole number; neither side exceeds its limit   *)
(* or its original; the aspect ratio is kept only up to that rounding.  A  *)
(* side that comes out as 0 makes the resize fail and the file is reported *)
(* as an error.  An image within both limits, or with a limit unset,       *)
(* keeps its size.                                                         *)
(***************************************************************************)
C9_ResizeWithinOnePixel ==
    /\ (opc = "transform" /\ LimitsSet) =>
          ~FloatLess(One, Scale(SrcW, SrcH, MAX_WIDTH, MAX_HEIGHT))
    /\ (Transformed /\ StillImage) =>
          IF MustShrink
          THEN /\ OutW <= ExactFloor(SrcW)
               /\ OutW >= ExactFloor(SrcW) - 1
               /\ ~ExactIsWhole(SrcW) => OutW = ExactFloor(SrcW)
               /\ OutH <= ExactFloor(SrcH)
               /\ OutH >= ExactFloor(SrcH) - 1
               /\ ~ExactIsWhole(SrcH) => OutH = ExactFloor(SrcH)
               /\ OutW <= Val(MAX_WIDTH) /\ OutW <= SrcW
               /\ OutH <= Val(MAX_HEIGHT) /\ OutH <= SrcH
               /\ OutW >= 1 /\ OutH >= 1
               /\ "Redimensionado" \in Range(console)
          ELSE /\ OutW = SrcW /\ OutH = SrcH
               /\ "Redimensionado" \notin Range(console)
    /\ ( /\ file_path # None /\ "transform" \in Range(steps)
         /\ StillImage /\ MustShrink
         /\ (ExactFloor(SrcW) = 0 \/ ExactFloor(SrcH) = 0) )
       => /\ JustReturned
          /\ Last(steps) = "transform"
          /\ Last(console) = "ErrorInesperado"

\* A resized image whose height came out one pixel under the exact value,
\* and whose aspect ratio is not exactly the original's.
C9_Witness ==
    /\ Transformed /\ StillImage /\ MustShrink
    /\ SrcH = 2148 /\ OutH = 1919 /\ ExactFloor(SrcH) = 1920
    /\ OutW * SrcH # OutH * SrcW
    /\ "Redimensionado" \in Range(console)

=============================================================================
